---- MODULE Spec2Model ----
(***************************************************************************)
(* The process supervisor of src/src/service-container.ts                  *)
(* (class ServiceContainer): one wrapper process that forks the service    *)
(* script, watches its exit, and restarts it under a backoff / rate-limit  *)
(* policy, together with the shutdown handler killkid().                   *)
(*                                                                         *)
(* Time is the value of Date.now() in milliseconds.  Every handler of the  *)
(* event loop (start, a child's 'exit' listener, a setTimeout callback,    *)
(* a signal listener, the 'uncaughtException' listener, the socket 'error' *)
(* listener) is one atomic action: node runs a listener to completion.     *)
(* Rational numbers (wait, grow) are pairs <<numerator, denominator>>.     *)
(***************************************************************************)
EXTENDS Integers, Sequences, FiniteSets, TLC

\* ------------------------------------------------------------------ bounds
MaxEvents  == 5        \* events from outside: child exits that no kill caused,
                       \* signals, uncaught exceptions, socket errors, and
                       \* steps of the clock that no timer ends
Quantum    == 30000    \* a step of the clock that no timer ends (ms)
Epoch      == 100000   \* Date.now() when the container is constructed
MaxCalls   == 4        \* calls of taskKill()
MaxPid     == 3        \* the largest process id passed to taskKill()
MaxServiceCalls == 4   \* calls of Service.start() and Service.uninstall()

\* --------------------------------------------------------------- constants
MAX      == 60         \* const MAX = 60 (seconds of the restart window)
Null     == 0          \* this.child === null
NullCode == -1         \* exit code null (the child died by a signal)
GrowDen  == 4          \* restartDelayGrowth is a multiple of 1/4 here

MaxRestartsSet == {0, 1, 2}
MaxRetriesSet  == {-1, 0, 1}
RestartDelaySet == {1}            \* seconds
GrowthSet       == {0, 1}         \* restartDelayGrowth * GrowDen: 0 and 0.25
Codes == {0, 1, NullCode}

VARIABLES
    \* options, fixed at construction
    maxRestarts, maxRetries, abortOnError, stopParentFirst, restartDelay, grow,
    \* fields of ServiceContainer
    child, starts, attempts, startTime, forcekill, wait,
    \* the runtime around it
    pc,          \* "constructed" | "running" | "exited" (process.exit called)
    now,         \* Date.now()
    timers,      \* pending setTimeout callbacks, in creation order
    server,      \* the ghost socket: "anchor" | "replacement" | "closed"
    spawned,     \* number of children forked so far; child ids are 1..spawned
    alive,       \* ids of the children whose 'exit' has not been delivered
    killed,      \* alive children that child.kill() was called on
    launchedAt,  \* launchedAt[c]: Date.now() at the fork of child c, while
                 \* c is alive (0 afterwards)
    kills,       \* kills[c]: number of child.kill() calls on child c
    msgs,        \* msgs[c]: number of child.send('shutdown') calls on child c
    logged,      \* the log calls of the last handler: <<level, message>>
    \* history
    lastOp,      \* name of the last handler that ran
    events,      \* events from outside so far (see MaxEvents)
    exits,       \* 'exit' events delivered so far
    restarts,    \* forks made by a restart timer so far
    restartTimes,\* Date.now() of the forks made by a restart timer during
                 \* the last MAX seconds
    signalled,   \* a SIGINT or SIGTERM has been delivered
    everStable,  \* some child has stayed alive for the whole window
    \* cmd.ts: taskKill(pid, force)
    pid, force,  \* the arguments of the current call
    calls,       \* calls made so far
    issued,      \* the commands handed to exec() so far
    outcome,     \* of the current call: "pending", or what it returned or threw
    \* unnamed/part_000: class Service
    installed,   \* the getter `installed`: the service's files exist
    admin,       \* how isAdminUser() ends: "admin" | "denied" | "failed"
    svcOp,       \* the method called: "none" | "start" | "uninstall"
    svcPc,       \* "idle" | "called" | "executing" | "done"
    svcOutcome,  \* how the method's promise settled: "pending", "resolved",
                 \* or the error it rejected with
    svcResult,   \* how the execute() of NET START settled: "none", "ok", or
                 \* its error
    svcCmds,     \* the commands run by the current call
    svcCalls,    \* calls made so far
    \* Service.generateServiceWrapperConfig and ServiceContainer.main
    config,           \* the ServiceConfig
    arguments,        \* the words of <arguments>, <<>> before they are made
    mainExit,         \* main(): "none" | "exit 1" | "start" (container.start())
    containerOptions  \* the options main() gives to new ServiceContainer

cfgVars  == <<maxRestarts, maxRetries, abortOnError, stopParentFirst, restartDelay, grow>>
vars == <<maxRestarts, maxRetries, abortOnError, stopParentFirst, restartDelay, grow,
          child, starts, attempts, startTime, forcekill, wait,
          pc, now, timers, server, spawned, alive, killed, launchedAt, kills, msgs,
          logged, lastOp, events, exits, restarts, restartTimes, signalled,
          everStable, pid, force, calls, issued, outcome,
          installed, admin, svcOp, svcPc, svcOutcome, svcResult, svcCmds,
          svcCalls, config, arguments, mainExit, containerOptions>>

cmdVars == <<pid, force, calls, issued, outcome>>

svcVars == <<installed, admin, svcOp, svcPc, svcOutcome, svcResult, svcCmds,
             svcCalls>>

wrapVars == <<config, arguments, mainExit, containerOptions>>

containerVars == <<child, starts, attempts, startTime, forcekill, wait,
                   pc, now, timers, server, spawned, alive, killed, launchedAt,
                   kills, msgs, logged, lastOp, events, exits, restarts,
                   restartTimes, signalled, everStable>>

\* ------------------------------------------------------------- arithmetic
RatMul(a, b) == <<a[1] * b[1], a[2] * b[2]>>

RatEq(a, b) == a[1] * b[2] = b[1] * a[2]

RECURSIVE Pow(_, _)
Pow(b, n) == IF n = 0 THEN 1 ELSE b * Pow(b, n - 1)

RatPow(a, n) == <<Pow(a[1], n), Pow(a[2], n)>>

RemoveAt(s, i) == SubSeq(s, 1, i - 1) \o SubSeq(s, i + 1, Len(s))

Range(s) == {s[i] : i \in 1..Len(s)}

\* setTimeout(cb, ms): the delay is truncated to whole milliseconds and a
\* delay below 1 ms is raised to 1 ms.
TimerDelay(w) == IF w[1] \div w[2] < 1 THEN 1 ELSE w[1] \div w[2]

\* this.wait = (options.restartDelay ?? 1) * 1000
InitialWait(delay) == <<delay * 1000, 1>>

\* this.grow = (options.restartDelayGrowth ?? 0.25) + 1
InitialGrow(growth) == <<growth + GrowDen, GrowDen>>

WindowMs == MAX * 1000

\* ------------------------------------------------------------------- Init
InitContainer ==
    /\ maxRestarts \in MaxRestartsSet
    /\ maxRetries \in MaxRetriesSet
    /\ abortOnError \in BOOLEAN
    /\ stopParentFirst \in BOOLEAN
    /\ restartDelay \in RestartDelaySet
    /\ \E g \in GrowthSet : grow = InitialGrow(g)
    /\ wait = InitialWait(restartDelay)
    /\ child = Null
    /\ starts = 0
    /\ attempts = 0
    /\ startTime = 0
    /\ forcekill = FALSE
    /\ pc = "constructed"
    /\ now = Epoch
    /\ timers = <<>>
    /\ server = "anchor"
    /\ spawned = 0
    /\ alive = {}
    /\ killed = {}
    /\ launchedAt = <<>>
    /\ kills = <<>>
    /\ msgs = <<>>
    /\ logged = <<>>
    /\ lastOp = "new"
    /\ events = 0
    /\ exits = 0
    /\ restarts = 0
    /\ restartTimes = <<>>
    /\ signalled = FALSE
    /\ everStable = FALSE

\* ----------------------------------------------------------------- cmd.ts
\* The values a JavaScript caller can pass as pid: typeof t; n the number,
\* nan for NaN; s the string.
Undefined == [t |-> "undefined", n |-> 0, nan |-> FALSE, s |-> ""]
NaN       == [t |-> "number", n |-> 0, nan |-> TRUE, s |-> ""]
Num(k)    == [t |-> "number", n |-> k, nan |-> FALSE, s |-> ""]
Str(x)    == [t |-> "string", n |-> 0, nan |-> FALSE, s |-> x]
Bool(b)   == [t |-> "boolean", n |-> IF b THEN 1 ELSE 0, nan |-> FALSE, s |-> ""]

PidSet == {Undefined, NaN, Str("abc")} \cup {Num(k) : k \in -1..MaxPid}

\* ToBoolean: what `if (v)` and `!v` test.
Truthy(v) ==
    CASE v.t = "undefined" -> FALSE
      [] v.t = "number"    -> ~v.nan /\ v.n # 0
      [] v.t = "string"    -> v.s # ""
      [] v.t = "boolean"   -> v.n = 1

\* The global isNaN(v): ToNumber(v) is NaN.  The strings of PidSet are not
\* numerals.
IsNaN(v) ==
    Bool(CASE v.t = "undefined" -> TRUE
           [] v.t = "number"    -> v.nan
           [] v.t = "string"    -> v.s # ""
           [] v.t = "boolean"   -> FALSE)

\* typeof v
TypeOf(v) == Str(v.t)

\* `${v}` of the template literal
Template(v) ==
    CASE v.t = "undefined" -> "undefined"
      [] v.t = "number"    -> IF v.nan THEN "NaN" ELSE ToString(v.n)
      [] v.t = "string"    -> v.s
      [] v.t = "boolean"   -> IF v.n = 1 THEN "true" ELSE "false"

\* `taskkill /PID ${pid}${force ? ' /f' : ''}`, as the words of the command
TaskKillCommand(p, f) ==
    <<"taskkill", "/PID", Template(p)>> \o (IF f THEN <<"/f">> ELSE <<>>)

\* No call of taskKill() is under way.
InitCmd ==
    /\ pid = Undefined
    /\ force = FALSE
    /\ calls = 0
    /\ issued = <<>>
    /\ outcome = "none"

\* No Service is in use.
InitSvc ==
    /\ installed = FALSE
    /\ admin = "admin"
    /\ svcOp = "none"
    /\ svcPc = "idle"
    /\ svcOutcome = "pending"
    /\ svcResult = "none"
    /\ svcCmds = <<>>
    /\ svcCalls = 0

\* An optional field of ServiceConfig: <<>> when it is left out, <<v>> when
\* it is given.  Numbers are rationals <<numerator, denominator>>.
Absent == <<>>
Given(v) == <<v>>
Whole(k) == <<k, 1>>

\* a ?? b
OrElse(a, b) == IF a = Absent THEN b ELSE a[1]

NameSet == {"svc", "APPLICATION", "SYSTEM"}
MaxRestartsOptions == {Absent, Given(Whole(0)), Given(Whole(3)), Given(Whole(5))}
MaxRetriesOptions  == {Absent, Given(Whole(-1)), Given(Whole(2))}
RestartDelayOptions == {Absent, Given(Whole(1)), Given(Whole(2))}
GrowthOptions == {Absent, Given(Whole(0)), Given(<<1, 4>>), Given(<<1, 2>>)}

ConfigSet ==
    [name : NameSet, script : {"app.js"},
     maxRestarts : MaxRestartsOptions, maxRetries : MaxRetriesOptions,
     restartDelay : RestartDelayOptions, restartDelayGrowth : GrowthOptions,
     abortOnError : BOOLEAN, stopParentFirst : BOOLEAN]

\* The numbers that the options can carry.
NumberSet ==
    {Whole(k) : k \in -1..5} \cup {<<1, 4>>, <<1, 2>>}

\* String(x) of a number: the decimal numeral.
String(x) ==
    IF x[2] = 1 THEN ToString(x[1])
    ELSE IF 2 * x[1] = x[2] THEN "0.5"
    ELSE IF 4 * x[1] = x[2] THEN "0.25"
    ELSE "?"

\* Number(s) of a string: the number whose numeral it is; <<0, 0>> is NaN.
Number(s) ==
    IF \E x \in NumberSet : String(x) = s
    THEN CHOOSE x \in NumberSet : String(x) = s
    ELSE <<0, 0>>

\* x => `"${x}"`
Quote(x) == "\"" \o x \o "\""

\* main() has constructed no ServiceContainer.
NoOptions ==
    [eventLog |-> "", logSource |-> "", maxRestarts |-> <<0, 0>>,
     maxRetries |-> <<0, 0>>, restartDelay |-> <<0, 0>>,
     restartDelayGrowth |-> <<0, 0>>, stopParentFirst |-> FALSE,
     abortOnError |-> FALSE]

\* No wrapper configuration has been generated.
InitWrap ==
    /\ config = [name |-> "svc", script |-> "app.js",
                 maxRestarts |-> Absent, maxRetries |-> Absent,
                 restartDelay |-> Absent, restartDelayGrowth |-> Absent,
                 abortOnError |-> FALSE, stopParentFirst |-> FALSE]
    /\ arguments = <<>>
    /\ mainExit = "none"
    /\ containerOptions = NoOptions

Init == InitContainer /\ InitCmd /\ InitSvc /\ InitWrap

\* ------------------------------------------------------------ the methods

\* History: the restarts of the last MAX seconds.
Recent(ts) == SelectSeq(ts, LAMBDA t : t > now - WindowMs)

\* A launch() that has lost its forcekill guard.
LaunchSuppressedNever == FALSE

\* launch(): the guard `if (this.forcekill)` of its first statement.
LaunchSuppressed == forcekill

\* A window test that always finds the window closed.
WindowClosedAlways == TRUE

\* launch(): the test `if (this.startTime === 0)`.
WindowClosed == startTime = 0

\* launch(logLevel, msg), run with pending timers tIn after the handler has
\* already logged logIn.  msg: the message, as its text and the values put
\* into it.  hasMsg: msg is a non-empty string.  byTimer: the caller is the
\* restart timer (history only).
Launch(tIn, logIn, level, msg, hasMsg, byTimer) ==
    IF LaunchSuppressed
    THEN /\ logged' = Append(logIn, <<"info", "Process killed">>)
         /\ timers' = tIn
         /\ UNCHANGED <<child, starts, startTime, spawned, alive, launchedAt,
                        kills, msgs, restarts, restartTimes>>
    ELSE /\ logged' = IF hasMsg THEN Append(logIn, <<level>> \o msg) ELSE logIn
         /\ IF WindowClosed
            THEN /\ startTime' = now
                 /\ timers' = Append(tIn, [kind |-> "window",
                                           due |-> now + WindowMs + 1,
                                           delay |-> <<WindowMs + 1, 1>>,
                                           nth |-> 0, stable |-> FALSE])
            ELSE /\ startTime' = startTime
                 /\ timers' = tIn
         /\ starts' = starts + 1
         /\ spawned' = spawned + 1
         /\ child' = spawned + 1
         /\ alive' = alive \cup {spawned + 1}
         /\ launchedAt' = Append(launchedAt, now)
         /\ kills' = Append(kills, 0)
         /\ msgs' = Append(msgs, 0)
         /\ restarts' = IF byTimer THEN restarts + 1 ELSE restarts
         /\ restartTimes' = IF byTimer THEN Append(Recent(restartTimes), now)
                                       ELSE restartTimes

\* A killkid() that has lost its else branch.
KillkidSilent(childIn, logIn) ==
    /\ forcekill' = TRUE
    /\ logged' = logIn
    /\ IF childIn # Null
       THEN IF stopParentFirst
            THEN /\ msgs' = [msgs EXCEPT ![childIn] = @ + 1]
                 /\ kills' = kills
            ELSE /\ kills' = [kills EXCEPT ![childIn] = @ + 1]
                 /\ msgs' = msgs
       ELSE UNCHANGED <<kills, msgs>>

\* killkid(), run with this.child = childIn after the handler logged logIn.
Killkid(childIn, logIn) ==
    /\ forcekill' = TRUE
    /\ IF childIn # Null
       THEN /\ IF stopParentFirst
               THEN /\ msgs' = [msgs EXCEPT ![childIn] = @ + 1]
                    /\ kills' = kills
               ELSE /\ kills' = [kills EXCEPT ![childIn] = @ + 1]
                    /\ msgs' = msgs
            /\ logged' = logIn
       ELSE /\ logged' = Append(logIn, <<"warn", "Attempted to kill an unrecognized process.">>)
            /\ UNCHANGED <<kills, msgs>>

\* process.exit(): the 'exit' listener of start() runs killkid(), then the
\* process is gone.
ProcessExit(childIn, logIn) ==
    /\ Killkid(childIn, logIn)
    /\ pc' = "exited"

\* monitor(): the test of `this.starts >= this.maxRestarts` and of the window.
TooManyRestarts ==
    /\ starts >= maxRestarts
    /\ now - WindowMs <= startTime

\* The retry test off by one: `attempts >= maxRetries`.
RetriesExceededOffByOne(a) == a >= maxRetries /\ maxRetries >= 0

\* The restart callback's test `attempts > maxRetries && maxRetries >= 0`.
RetriesExceeded(a) == a > maxRetries /\ maxRetries >= 0

\* monitor(), run with this.child = childIn after the handler logged logIn.
Monitor(childIn, logIn) ==
    IF childIn = Null
    THEN IF TooManyRestarts
         THEN /\ ProcessExit(childIn, Append(logIn, <<"error", "Too many restarts within the last 60 seconds.">>))
              /\ UNCHANGED <<timers, attempts, wait>>
         ELSE /\ timers' = Append(timers, [kind |-> "restart",
                                           due |-> now + TimerDelay(wait),
                                           delay |-> wait,
                                           nth |-> exits, stable |-> everStable'])
              /\ logged' = logIn
              /\ UNCHANGED <<attempts, wait, forcekill, kills, msgs, pc>>
    ELSE /\ attempts' = 0
         /\ wait' = RatMul(wait, <<1000, 1>>)
         /\ logged' = logIn
         /\ UNCHANGED <<timers, forcekill, kills, msgs, pc>>

\* ------------------------------------------------------------ the actions

\* start()
Start ==
    /\ pc = "constructed"
    /\ pc' = "running"
    /\ Launch(timers, <<>>, "info", <<"Starting">>, TRUE, FALSE)
    /\ lastOp' = "start"
    /\ UNCHANGED cfgVars
    /\ UNCHANGED cmdVars
    /\ UNCHANGED svcVars
    /\ UNCHANGED wrapVars
    /\ UNCHANGED <<attempts, forcekill, wait, now, server, killed,
                   events, exits, signalled, everStable>>

\* An abort test that never trips.
AbortOnErrorNever(code) == FALSE

\* An abort test that has lost its test of the exit code.
AbortOnErrorAnyCode(code) == abortOnError

\* The 'exit' listener's test `code !== 0 && this.abortOnError`.
AbortOnErrorTripped(code) == code # 0 /\ abortOnError

\* The 'exit' listener that launch() puts on child c.
ChildExit(c, code) ==
    /\ pc = "running"
    /\ c \in alive
    /\ c \in killed \/ events < MaxEvents
    /\ alive' = alive \ {c}
    /\ killed' = killed \ {c}
    /\ events' = IF c \in killed THEN events ELSE events + 1
    /\ exits' = exits + 1
    /\ launchedAt' = [launchedAt EXCEPT ![c] = 0]
    /\ everStable' = (everStable \/ now - launchedAt[c] >= WindowMs)
    /\ lastOp' = "exit"
    /\ LET log1 == << <<"warn", "stopped running.">> >> IN
       IF AbortOnErrorTripped(code)
       THEN /\ ProcessExit(child, Append(log1, <<"error", "exited with error code">>))
            /\ UNCHANGED <<child, timers, attempts, wait>>
       ELSE IF forcekill
            THEN /\ ProcessExit(child, log1)
                 /\ UNCHANGED <<child, timers, attempts, wait>>
            ELSE /\ child' = Null
                 /\ Monitor(Null, log1)
    /\ UNCHANGED cfgVars
    /\ UNCHANGED cmdVars
    /\ UNCHANGED svcVars
    /\ UNCHANGED wrapVars
    /\ UNCHANGED <<starts, startTime, now, server, spawned, restarts,
                   restartTimes, signalled>>

\* The callback of the setTimeout of monitor().
RestartTimer(i) ==
    /\ pc = "running"
    /\ i \in 1..Len(timers)
    /\ timers[i].kind = "restart"
    /\ timers[i].due <= now
    /\ wait' = RatMul(wait, grow)
    /\ attempts' = attempts + 1
    /\ lastOp' = "restart"
    /\ IF RetriesExceeded(attempts + 1)
       THEN /\ ProcessExit(child, << <<"error", "Too many restarts. Maximum number of total restarts exceeded.">> >>)
            /\ timers' = RemoveAt(timers, i)
            /\ UNCHANGED <<child, starts, startTime, spawned, alive, launchedAt,
                           restarts, restartTimes>>
       ELSE /\ Launch(RemoveAt(timers, i), <<>>, "warn",
                      <<"Restarted", wait', attempts'>>, TRUE, TRUE)
            /\ UNCHANGED <<forcekill, pc>>
    /\ UNCHANGED cfgVars
    /\ UNCHANGED cmdVars
    /\ UNCHANGED svcVars
    /\ UNCHANGED wrapVars
    /\ UNCHANGED <<now, server, killed, events, exits, signalled, everStable>>

\* The callback of the setTimeout of launch().
WindowTimer(i) ==
    /\ pc = "running"
    /\ i \in 1..Len(timers)
    /\ timers[i].kind = "window"
    /\ timers[i].due <= now
    /\ startTime' = 0
    /\ starts' = 0
    /\ timers' = RemoveAt(timers, i)
    /\ logged' = <<>>
    /\ lastOp' = "window"
    /\ UNCHANGED cfgVars
    /\ UNCHANGED cmdVars
    /\ UNCHANGED svcVars
    /\ UNCHANGED wrapVars
    /\ UNCHANGED <<child, attempts, forcekill, wait, pc, now, server, spawned,
                   alive, killed, launchedAt, kills, msgs, events, exits,
                   restarts, restartTimes, signalled, everStable>>

\* The SIGINT and SIGTERM listeners of start().
Signal ==
    /\ pc = "running"
    /\ events < MaxEvents
    /\ events' = events + 1
    /\ signalled' = TRUE
    /\ Killkid(child, <<>>)
    /\ killed' = IF child # Null /\ ~stopParentFirst
                 THEN killed \cup ({child} \cap alive) ELSE killed
    /\ lastOp' = "signal"
    /\ UNCHANGED cfgVars
    /\ UNCHANGED cmdVars
    /\ UNCHANGED svcVars
    /\ UNCHANGED wrapVars
    /\ UNCHANGED <<child, starts, attempts, startTime, wait, pc, now, timers,
                   server, spawned, alive, launchedAt, exits, restarts,
                   restartTimes, everStable>>

\* The 'uncaughtException' listener of start().
UncaughtException(hasMsg) ==
    /\ pc = "running"
    /\ events < MaxEvents
    /\ events' = events + 1
    /\ Launch(timers, <<>>, "warn", <<"err.message">>, hasMsg, FALSE)
    /\ lastOp' = "uncaught"
    /\ UNCHANGED cfgVars
    /\ UNCHANGED cmdVars
    /\ UNCHANGED svcVars
    /\ UNCHANGED wrapVars
    /\ UNCHANGED <<attempts, forcekill, wait, pc, now, server, killed,
                   exits, signalled, everStable>>

\* The 'error' listener of keepAlive().  Only the first server has the
\* listener; an 'error' of the replacement has none and is thrown, which
\* reaches the 'uncaughtException' listener.
SocketError(hasMsg) ==
    /\ pc = "running"
    /\ events < MaxEvents
    /\ server # "closed"
    /\ events' = events + 1
    /\ server' = IF server = "anchor" THEN "replacement" ELSE "closed"
    /\ Launch(timers, <<>>, "warn", <<"err.message">>, hasMsg, FALSE)
    /\ lastOp' = "socket"
    /\ UNCHANGED cfgVars
    /\ UNCHANGED cmdVars
    /\ UNCHANGED svcVars
    /\ UNCHANGED wrapVars
    /\ UNCHANGED <<attempts, forcekill, wait, pc, now, killed,
                   exits, signalled, everStable>>

\* The clock.  A timer fires at its due time: the clock never passes a
\* pending timer.  It steps to the next due time, or by Quantum when no
\* timer is due that soon.
NextDue == IF timers = <<>> THEN now + Quantum
           ELSE CHOOSE d \in {timers[i].due : i \in 1..Len(timers)} :
                    \A j \in 1..Len(timers) : d <= timers[j].due

Advance ==
    /\ pc = "running"
    /\ NextDue > now
    /\ \/ /\ timers # <<>>
          /\ NextDue <= now + Quantum
          /\ now' = NextDue
          /\ events' = events
       \/ /\ now + Quantum < NextDue \/ timers = <<>>
          /\ events < MaxEvents
          /\ now' = now + Quantum
          /\ events' = events + 1
    /\ logged' = <<>>
    /\ lastOp' = "advance"
    /\ UNCHANGED cfgVars
    /\ UNCHANGED cmdVars
    /\ UNCHANGED svcVars
    /\ UNCHANGED wrapVars
    /\ UNCHANGED <<child, starts, attempts, startTime, forcekill, wait, pc,
                   timers, server, spawned, alive, killed, launchedAt, kills,
                   msgs, exits, restarts, restartTimes, signalled, everStable>>

Next ==
    \/ Start
    \/ \E c \in alive, code \in Codes : ChildExit(c, code)
    \/ \E i \in 1..Len(timers) : RestartTimer(i)
    \/ \E i \in 1..Len(timers) : WindowTimer(i)
    \/ Signal
    \/ \E hasMsg \in BOOLEAN : UncaughtException(hasMsg)
    \/ \E hasMsg \in BOOLEAN : SocketError(hasMsg)
    \/ Advance

Spec == Init /\ [][Next]_vars

\* The behaviours in which nothing throws and the ghost socket never fails,
\* with the rate limiter switched on (maxRestarts >= 1).
InitNoFault == Init /\ maxRestarts >= 1

NextNoFault ==
    \/ Start
    \/ \E c \in alive, code \in Codes : ChildExit(c, code)
    \/ \E i \in 1..Len(timers) : RestartTimer(i)
    \/ \E i \in 1..Len(timers) : WindowTimer(i)
    \/ Signal
    \/ Advance

SpecNoFault == InitNoFault /\ [][NextNoFault]_vars

\* A Logger call of the last handler rejects (Logger.log rethrows what exec
\* threw).  No caller awaits or catches the promise, so the rejection is
\* unhandled: a runtime that only warns about it goes on (routed = FALSE),
\* a runtime that raises it hands it to the 'uncaughtException' listener
\* of start() (routed = TRUE).
LoggerRejection(routed) ==
    /\ pc = "running"
    /\ logged # <<>>
    /\ events < MaxEvents
    /\ events' = events + 1
    /\ IF routed
       THEN Launch(timers, <<>>, "warn", <<"err.message">>, TRUE, FALSE)
       ELSE /\ logged' = <<>>
            /\ UNCHANGED <<child, starts, startTime, timers, spawned, alive,
                           launchedAt, kills, msgs, restarts, restartTimes>>
    /\ lastOp' = "logfail"
    /\ UNCHANGED cfgVars
    /\ UNCHANGED cmdVars
    /\ UNCHANGED svcVars
    /\ UNCHANGED wrapVars
    /\ UNCHANGED <<attempts, forcekill, wait, pc, now, server, killed,
                   exits, signalled, everStable>>

\* The behaviours in which nothing fails but the log sink.
NextLogFault ==
    \/ Start
    \/ \E c \in alive, code \in Codes : ChildExit(c, code)
    \/ \E i \in 1..Len(timers) : RestartTimer(i)
    \/ \E i \in 1..Len(timers) : WindowTimer(i)
    \/ Signal
    \/ \E routed \in BOOLEAN : LoggerRejection(routed)
    \/ Advance

SpecLogFault == InitNoFault /\ [][NextLogFault]_vars

\* ------------------------------------------------- taskKill(pid, force)
\* A caller passes the arguments of the next call.
CallTaskKill(p, f) ==
    /\ outcome # "pending"
    /\ calls < MaxCalls
    /\ calls' = calls + 1
    /\ pid' = p
    /\ force' = f
    /\ outcome' = "pending"
    /\ UNCHANGED issued
    /\ UNCHANGED svcVars
    /\ UNCHANGED wrapVars
    /\ UNCHANGED <<cfgVars, child, starts, attempts, startTime, forcekill, wait,
                   pc, now, timers, server, spawned, alive, killed, launchedAt,
                   kills, msgs, logged, lastOp, events, exits, restarts,
                   restartTimes, signalled, everStable>>

\* The body of taskKill().  ok: the command that exec() ran succeeded.
TaskKill(ok) ==
    /\ outcome = "pending"
    /\ IF ~Truthy(pid)
       THEN /\ outcome' = "PID is required for the kill operation."
            /\ issued' = issued
       ELSE IF Truthy(TypeOf(IsNaN(pid)))
       THEN /\ outcome' = "PID must be a number."
            /\ issued' = issued
       ELSE /\ issued' = Append(issued, TaskKillCommand(pid, force))
            /\ outcome' = IF ok THEN "resolved" ELSE "rejected by exec"
    /\ UNCHANGED <<pid, force, calls>>
    /\ UNCHANGED svcVars
    /\ UNCHANGED wrapVars
    /\ UNCHANGED <<cfgVars, child, starts, attempts, startTime, forcekill, wait,
                   pc, now, timers, server, spawned, alive, killed, launchedAt,
                   kills, msgs, logged, lastOp, events, exits, restarts,
                   restartTimes, signalled, everStable>>

InitTaskKill ==
    /\ InitContainer
    /\ maxRestarts = 2 /\ maxRetries = -1
    /\ ~abortOnError /\ ~stopParentFirst
    /\ grow = InitialGrow(1)
    /\ InitCmd
    /\ InitSvc
    /\ InitWrap

NextTaskKill ==
    \/ \E p \in PidSet, f \in BOOLEAN : CallTaskKill(p, f)
    \/ \E ok \in BOOLEAN : TaskKill(ok)

SpecTaskKill == InitTaskKill /\ [][NextTaskKill]_vars

\* ---------------------------------------------------------- class Service
AdminResults == {"admin", "denied", "failed"}

\* How a NET or winsw command run by execute() ends: it succeeds, it fails
\* with exit code 2 ('... has already been started' for NET START), or it
\* fails otherwise.
CommandResults == {"ok", "code 2", "failed"}

\* execute(cmd), run to its end: isAdminUser() runs NET SESSION, then the
\* command is run elevated.  The result is <<how it settled, commands run>>.
Execute(cmd, res) ==
    IF admin = "failed" THEN <<"NET SESSION failed", <<"NET SESSION">>>>
    ELSE IF admin = "denied" THEN <<"Permission Denied", <<"NET SESSION">>>>
    ELSE <<IF res = "ok" THEN "ok" ELSE cmd \o " " \o res, <<"NET SESSION", cmd>>>>

\* A caller calls start() or uninstall() of a Service whose files exist or
\* not, as a user who is an administrator or not.
ServiceCall(op, inst, adm) ==
    /\ svcPc \in {"idle", "done"}
    /\ svcCalls < MaxServiceCalls
    /\ svcCalls' = svcCalls + 1
    /\ svcOp' = op
    /\ installed' = inst
    /\ admin' = adm
    /\ svcPc' = "called"
    /\ svcOutcome' = "pending"
    /\ svcResult' = "none"
    /\ svcCmds' = <<>>
    /\ UNCHANGED <<cfgVars, containerVars, cmdVars, wrapVars>>

\* start(), up to its return.  this.execute(...) is called and not awaited:
\* the try block ends as soon as execute() has returned its promise.
ServiceStart ==
    /\ svcPc = "called"
    /\ svcOp = "start"
    /\ IF ~installed
       THEN /\ svcOutcome' = "not installed"
            /\ svcPc' = "done"
       ELSE /\ svcOutcome' = "resolved"
            /\ svcPc' = "executing"
    /\ UNCHANGED <<installed, admin, svcOp, svcResult, svcCmds, svcCalls>>
    /\ UNCHANGED <<cfgVars, containerVars, cmdVars, wrapVars>>

\* The execute() that start() left behind settles.
ServiceStartSettles(res) ==
    /\ svcPc = "executing"
    /\ svcOp = "start"
    /\ svcResult' = Execute("NET START", res)[1]
    /\ svcCmds' = svcCmds \o Execute("NET START", res)[2]
    /\ svcPc' = "done"
    /\ UNCHANGED <<installed, admin, svcOp, svcOutcome, svcCalls>>
    /\ UNCHANGED <<cfgVars, containerVars, cmdVars, wrapVars>>

\* uninstall(): every step is awaited.  stopRes: how NET STOP ends;
\* runRes: how `<id>.exe uninstall` ends; stderrEmpty: it wrote nothing to
\* stderr.
ServiceUninstall(stopRes, runRes, stderrEmpty) ==
    /\ svcPc = "called"
    /\ svcOp = "uninstall"
    /\ svcPc' = "done"
    /\ IF ~installed
       THEN /\ svcOutcome' = "not installed"
            /\ UNCHANGED <<installed, svcCmds>>
       ELSE LET stop == Execute("NET STOP", stopRes)
                run  == Execute("uninstall", runRes) IN
            IF stop[1] \notin {"ok", "NET STOP code 2"}
            THEN /\ svcOutcome' = stop[1]
                 /\ svcCmds' = stop[2]
                 /\ UNCHANGED installed
            ELSE IF run[1] # "ok"
            THEN /\ svcOutcome' = run[1]
                 /\ svcCmds' = stop[2] \o run[2]
                 /\ UNCHANGED installed
            ELSE IF ~stderrEmpty
            THEN /\ svcOutcome' = "Error: stderr"
                 /\ svcCmds' = stop[2] \o run[2]
                 /\ UNCHANGED installed
            ELSE /\ svcOutcome' = "resolved"
                 /\ svcCmds' = stop[2] \o run[2]
                 /\ installed' = FALSE
    /\ UNCHANGED <<admin, svcOp, svcResult, svcCalls>>
    /\ UNCHANGED <<cfgVars, containerVars, cmdVars, wrapVars>>

InitService ==
    /\ InitContainer
    /\ maxRestarts = 2 /\ maxRetries = -1
    /\ ~abortOnError /\ ~stopParentFirst
    /\ grow = InitialGrow(1)
    /\ InitCmd
    /\ InitSvc
    /\ InitWrap

NextService ==
    \/ \E op \in {"start", "uninstall"}, inst \in BOOLEAN, adm \in AdminResults :
           ServiceCall(op, inst, adm)
    \/ ServiceStart
    \/ \E res \in CommandResults : ServiceStartSettles(res)
    \/ \E stopRes \in CommandResults, runRes \in CommandResults,
          stderrEmpty \in BOOLEAN : ServiceUninstall(stopRes, runRes, stderrEmpty)

SpecService == InitService /\ [][NextService]_vars

\* ------------------------- generateServiceWrapperConfig() and main()
WRAPPER_FILENAME == "service-entrypoint.js"

\* The words of the <arguments> element, before they are quoted and joined.
WrapperArguments(c) ==
    <<WRAPPER_FILENAME,
      "--event-log", c.name \o "-Wrapper",
      "--wait", String(OrElse(c.restartDelay, Whole(1))),
      "--grow", String(OrElse(c.restartDelayGrowth, <<1, 4>>)),
      "--max-restarts", String(OrElse(c.maxRestarts, Whole(3))),
      "--max-retries", String(OrElse(c.maxRetries, Whole(-1)))>>
    \o (IF c.abortOnError THEN <<"--abort-on-error">> ELSE <<>>)
    \o (IF c.stopParentFirst THEN <<"--stop-parent-first">> ELSE <<>>)
    \o <<c.script>>

\* generateServiceWrapperConfig(): `.map(x => `"${x}"`)`; the join with
\* ' ' keeps the words apart.
GenerateServiceWrapperConfig ==
    /\ arguments = <<>>
    /\ arguments' = [i \in 1..Len(WrapperArguments(config)) |->
                         Quote(WrapperArguments(config)[i])]
    /\ UNCHANGED <<config, mainExit, containerOptions>>
    /\ UNCHANGED <<cfgVars, containerVars, cmdVars, svcVars>>

\* The words that the command line can hold.
Words ==
    {WRAPPER_FILENAME, "--event-log", "--log-source", "--wait", "--grow",
     "--max-restarts", "--max-retries", "--abort-on-error",
     "--stop-parent-first", "app.js"}
    \cup {n \o "-Wrapper" : n \in NameSet} \cup {String(x) : x \in NumberSet}

\* What winsw and the runtime make of a quoted word: process.argv holds the
\* word without its quotes.
Unquote(q) == CHOOSE x \in Words : Quote(x) = q

\* process.argv after the script name.
Argv == [i \in 1..(Len(arguments) - 1) |-> Unquote(arguments[i + 1])]

OptionPresent(id) == \E i \in 1..Len(Argv) : Argv[i] = id

\* The value of an option: the word after it, or the default `value`.
OptionValue(id, default) ==
    IF \E i \in 1..(Len(Argv) - 1) : Argv[i] = id
    THEN Argv[(CHOOSE i \in 1..(Len(Argv) - 1) : Argv[i] = id) + 1]
    ELSE default

\* main(), run on the arguments of the wrapper configuration.  The handler
\* of --event-log runs while the options are parsed; the run handler needs
\* --log-source and the script file (fileExists).
Main(fileExists) ==
    /\ arguments # <<>>
    /\ mainExit = "none"
    /\ IF OptionValue("--event-log", "APPLICATION") \notin {"APPLICATION", "SYSTEM"}
       THEN /\ mainExit' = "exit 1"
            /\ UNCHANGED containerOptions
       ELSE IF OptionValue("--log-source", "") = ""
       THEN /\ mainExit' = "exit 1"
            /\ UNCHANGED containerOptions
       ELSE IF ~fileExists
       THEN /\ mainExit' = "exit 1"
            /\ UNCHANGED containerOptions
       ELSE /\ mainExit' = "start"
            /\ containerOptions' =
                  [eventLog |-> OptionValue("--event-log", "APPLICATION"),
                   logSource |-> OptionValue("--log-source", ""),
                   maxRestarts |-> Number(OptionValue("--max-restarts", "5")),
                   maxRetries |-> Number(OptionValue("--max-retries", "-1")),
                   restartDelay |-> Number(OptionValue("--wait", "1")),
                   restartDelayGrowth |-> Number(OptionValue("--grow", "0.25")),
                   stopParentFirst |-> OptionPresent("--stop-parent-first"),
                   abortOnError |-> OptionPresent("--abort-on-error")]
    /\ UNCHANGED <<config, arguments>>
    /\ UNCHANGED <<cfgVars, containerVars, cmdVars, svcVars>>

InitWrapper ==
    /\ InitContainer
    /\ maxRestarts = 2 /\ maxRetries = -1
    /\ ~abortOnError /\ ~stopParentFirst
    /\ grow = InitialGrow(1)
    /\ InitCmd
    /\ InitSvc
    /\ config \in ConfigSet
    /\ arguments = <<>>
    /\ mainExit = "none"
    /\ containerOptions = NoOptions

NextWrapper ==
    \/ GenerateServiceWrapperConfig
    \/ \E fileExists \in BOOLEAN : Main(fileExists)

SpecWrapper == InitWrapper /\ [][NextWrapper]_vars

\* ------------------------------------------------------------- the claims

RestartTimers == {i \in 1..Len(timers) : timers[i].kind = "restart"}

NoTimerDue == \A i \in 1..Len(timers) : timers[i].due > now

Logged(level, msg) == <<level, msg>> \in Range(logged)

\* The process ended in the restart callback: the retry budget is used up.
BudgetExit ==
    /\ pc = "exited"
    /\ lastOp = "restart"
    /\ Logged("error", "Too many restarts. Maximum number of total restarts exceeded.")

\* C1: in every reachable state at most one forked child has not yet exited.
C1_AtMostOneLiveChild == Cardinality(alive) <= 1

\* C2: once forcekill is set it stays set and no child is forked any more,
\* whichever handler runs (a restart timer that was pending, an exception,
\* a socket error).
C2_NoSpawnAfterForcekill ==
    [][forcekill => (forcekill' /\ spawned' = spawned /\ alive' \subseteq alive)]_vars

\* C2 witness: a restart timer has fired after the shutdown request and its
\* launch() was suppressed.
C2_SuppressedRestart ==
    /\ pc = "running"
    /\ signalled
    /\ lastOp = "restart"
    /\ Logged("info", "Process killed")
    /\ restarts < attempts

\* C3: every interval of MAX seconds holds at most maxRestarts forks made by
\* the restart timer.  restartTimes holds the restarts of the MAX seconds that
\* end with the latest one.
C3_SlidingWindowLimit ==
    restartTimes # <<>> =>
        Cardinality({i \in 1..Len(restartTimes) :
            restartTimes[i] > restartTimes[Len(restartTimes)] - WindowMs}) <= maxRestarts

\* C4: with maxRetries = m >= 0 and no shutdown request, every firing of the
\* restart timer up to the m-th forks a child, and the (m+1)-th firing logs
\* the fatal error and ends the process with m restarts made; with
\* maxRetries = -1 the process never ends in the restart callback.
C4_RetryBudget ==
    /\ (maxRetries >= 0 /\ ~signalled) =>
          IF pc = "exited" /\ lastOp = "restart"
          THEN BudgetExit /\ attempts = maxRetries + 1 /\ restarts = maxRetries
          ELSE restarts = attempts /\ attempts <= maxRetries
    /\ maxRetries = -1 => ~(pc = "exited" /\ lastOp = "restart")

\* C4 witness: with maxRetries = 1 the child was restarted once and the
\* second firing of the restart timer ended the process.
C4_BudgetUsedUp ==
    /\ maxRetries = 1
    /\ ~signalled
    /\ BudgetExit
    /\ restarts = 1
    /\ attempts = 2

\* C5: as long as no child has stayed alive for a whole window, the restart
\* timer scheduled at the (n+1)-th child exit has the delay
\* restartDelay * 1000 * grow^n.
C5_BackoffDelay ==
    \A i \in RestartTimers :
        ~timers[i].stable =>
            RatEq(timers[i].delay,
                  RatMul(InitialWait(restartDelay), RatPow(grow, timers[i].nth)))

\* C6: a child that has been alive for the whole window (the window timer,
\* due 1 ms later, included) sees attempts = 0, starts = 0 and wait at its
\* base value, so that its exit is handled with a fresh budget.
C6_StabilityReset ==
    \A c \in alive :
        (pc = "running" /\ NoTimerDue /\ now - launchedAt[c] >= WindowMs + 1) =>
            /\ attempts = 0
            /\ starts = 0
            /\ RatEq(wait, InitialWait(restartDelay))

\* C7: a shutdown signal that arrives while a child is alive sends that child
\* the 'shutdown' message and kills nothing when stopParentFirst is set, and
\* kills it and sends nothing when it is not.
C7_ModeByStopParentFirst ==
    [][(lastOp' = "signal" /\ alive # {}) =>
          \E c \in alive :
              IF stopParentFirst
              THEN msgs'[c] = msgs[c] + 1 /\ kills' = kills
              ELSE kills'[c] = kills[c] + 1 /\ msgs' = msgs]_vars

\* C8: whatever the number of shutdown requests, a live child has been
\* issued at most one kill or one 'shutdown' message.
C8_AtMostOneKillPerChild ==
    \A c \in alive : kills[c] + msgs[c] <= 1

\* C9: with stopParentFirst unset, a shutdown signal ends in TERMINAL once
\* the killed child has exited and the pending restart timers have fired.
\* As a state property: after the signal, with no killed child left to exit
\* and no restart timer left to fire, the process has exited.
C9_ShutdownTerminates ==
    (signalled /\ ~stopParentFirst /\ killed = {} /\ RestartTimers = {}) =>
        pc = "exited"

\* C10: a child exit handled while forcekill is set logs the informational
\* 'Process killed', logs no error, and ends the process, for every exit code
\* and either value of abortOnError.
C10_ForcekillBeforeAbort ==
    [][(lastOp' = "exit" /\ forcekill) =>
          /\ pc' = "exited"
          /\ <<"info", "Process killed">> \in Range(logged')
          /\ \A e \in Range(logged') : e[1] # "error"]_vars

\* The restart timer that monitor() schedules in the current state.
ScheduledRestart(t) ==
    /\ t.kind = "restart"
    /\ t.due = now + TimerDelay(wait)
    /\ RatEq(t.delay, wait)

\* C11: a child exit with code 0 is never answered with the abortOnError
\* error, whatever abortOnError is: it ends the process without an error
\* when forcekill is set, ends it with the rate limiter's error when the
\* rate limiter trips, and otherwise clears the child handle and schedules
\* one restart timer with delay wait, leaving attempts and wait alone.
C11_CleanExitNeverAborts ==
    [][\A c \in alive : ChildExit(c, 0) =>
          /\ <<"error", "exited with error code">> \notin Range(logged')
          /\ IF forcekill
             THEN /\ pc' = "exited"
                  /\ timers' = timers
                  /\ \A e \in Range(logged') : e[1] # "error"
             ELSE IF TooManyRestarts
             THEN /\ pc' = "exited"
                  /\ timers' = timers
                  /\ <<"error", "Too many restarts within the last 60 seconds.">> \in Range(logged')
             ELSE /\ pc' = "running"
                  /\ child' = Null
                  /\ Len(timers') = Len(timers) + 1
                  /\ SubSeq(timers', 1, Len(timers)) = timers
                  /\ ScheduledRestart(timers'[Len(timers')])
                  /\ attempts' = attempts /\ wait' = wait /\ starts' = starts]_vars

\* C11 witness: with abortOnError set, a child exit (of code 0: any other
\* code ends the process) has left the supervisor running with the child
\* handle cleared and a restart timer pending.
C11_CleanExitRestarts ==
    /\ abortOnError
    /\ lastOp = "exit"
    /\ pc = "running"
    /\ child = Null
    /\ RestartTimers # {}

\* C12: with abortOnError set and no shutdown requested, a child exit with a
\* non-zero code logs the error 'exited with error code' and ends the
\* process: the step schedules no timer, leaves attempts, starts and wait
\* alone and forks nothing, and no step forks anything once the process has
\* ended.
C12_AbortOnErrorIsTerminal ==
    [][/\ \A c \in alive, code \in Codes \ {0} :
             (abortOnError /\ ~forcekill /\ ChildExit(c, code)) =>
                 /\ <<"error", "exited with error code">> \in Range(logged')
                 /\ pc' = "exited"
                 /\ timers' = timers
                 /\ attempts' = attempts /\ starts' = starts /\ wait' = wait
                 /\ spawned' = spawned
       /\ pc = "exited" => pc' = "exited" /\ spawned' = spawned]_vars

\* C12 witness: the process has ended in the 'exit' listener with the
\* abortOnError error logged, no shutdown having been requested.
C12_AbortedOnError ==
    /\ abortOnError
    /\ ~signalled
    /\ lastOp = "exit"
    /\ pc = "exited"
    /\ Logged("error", "exited with error code")

\* The process ended in monitor(): the rate limiter tripped.
RateLimitExit ==
    /\ pc = "exited"
    /\ lastOp = "exit"
    /\ Logged("error", "Too many restarts within the last 60 seconds.")

\* The forks made by the restart timer since the window was opened.
RestartsInWindow ==
    Cardinality({i \in 1..Len(restartTimes) : restartTimes[i] >= startTime})

\* C13: with maxRestarts = k >= 1 and maxRetries unlimited, the rate limiter
\* ends the process only on the exit that follows the k-th restart of the
\* window: the initial launch is not counted.
C13_ExactlyMaxRestartsPerWindow ==
    (maxRetries = -1 /\ maxRestarts >= 1 /\ RateLimitExit) =>
        RestartsInWindow = maxRestarts

\* C14: a shutdown signal handled while no child is alive logs the warning
\* 'Attempted to kill an unrecognized process.', calls neither child.kill()
\* nor child.send('shutdown'), sets forcekill, and leaves the rest of the
\* supervisor (child handle, counters, window, wait, timers, the process
\* itself) as it was.
C14_ShutdownWithoutChild ==
    [][(lastOp' = "signal" /\ alive = {}) =>
          /\ <<"warn", "Attempted to kill an unrecognized process.">> \in Range(logged')
          /\ kills' = kills /\ msgs' = msgs
          /\ forcekill'
          /\ UNCHANGED <<child, starts, attempts, startTime, wait, timers, pc,
                         spawned, alive, killed>>]_vars

\* C14 witness: a shutdown signal was handled between a child's exit and
\* the restart: no child alive, the restart timer still pending.
C14_SignalBetweenExitAndRestart ==
    /\ lastOp = "signal"
    /\ pc = "running"
    /\ alive = {}
    /\ child = Null
    /\ forcekill
    /\ RestartTimers # {}
    /\ Logged("warn", "Attempted to kill an unrecognized process.")

\* C15: an 'error' of the ghost socket is handled in place: the handler logs
\* a warning and opens a replacement that is handled the same way, forks no
\* child, leaves the child handle, attempts, starts, startTime and wait as
\* they were, and does not end the process.
C15_AnchorErrorInPlace ==
    [][lastOp' = "socket" =>
          /\ \E e \in Range(logged') : e[1] = "warn"
          /\ server' # "closed"
          /\ spawned' = spawned
          /\ alive' = alive
          /\ UNCHANGED <<child, attempts, starts, startTime, wait>>
          /\ pc' = "running"]_vars

\* C16: a Logger call that rejects changes nothing in the supervisor: no
\* child is forked, killed or sent 'shutdown', no timer is added or dropped,
\* the counters, the window and the child handle stay as the handler that
\* logged left them, and the process does not end.
C16_LogFailureIsSwallowed ==
    [][lastOp' = "logfail" =>
          /\ spawned' = spawned
          /\ alive' = alive
          /\ kills' = kills /\ msgs' = msgs
          /\ UNCHANGED <<child, starts, attempts, startTime, wait, timers,
                         forcekill, pc>>]_vars

\* C17: with maxRestarts = 0 the rate limiter is switched off: the process
\* never ends with 'Too many restarts within the last 60 seconds'.
C17_ZeroMaxRestartsDisablesLimiter ==
    maxRestarts = 0 => ~RateLimitExit

\* C18: taskKill(pid, force) with a pid that is a number other than 0 hands
\* exec() exactly one command, 'taskkill /PID <pid>' with ' /f' appended iff
\* force, and returns exec's result; with any other pid it throws and hands
\* exec() nothing.
C18_TaskKillIssuesCommand ==
    (outcome \notin {"none", "pending"}) =>
        IF pid.t = "number" /\ ~pid.nan /\ pid.n # 0
        THEN /\ outcome \in {"resolved", "rejected by exec"}
             /\ issued # <<>>
             /\ issued[Len(issued)] = TaskKillCommand(pid, force)
        ELSE outcome \in {"PID is required for the kill operation.",
                          "PID must be a number."}

\* C19: as long as no shutdown is requested, every child exit that ends
\* nothing is answered by one restart timer and then by the one fork that
\* this timer makes: the exits so far are the restarts made plus the restart
\* timers pending; no child is alive while a restart timer is pending (the
\* fork comes after the timer, and there is one fork only); and the process
\* does not end with a restart timer pending, unless the retry budget ended
\* it.
C19_OneLaunchPerExit ==
    /\ (pc = "running" /\ ~forcekill) =>
           /\ restarts + Cardinality(RestartTimers) = exits
           /\ RestartTimers # {} => alive = {}
    /\ (pc = "exited" /\ ~signalled /\ ~BudgetExit) => RestartTimers = {}

\* C20: the 'exit' listener leaves the child handle cleared, whichever way
\* it ends, and no handler calls child.kill() or child.send('shutdown') on
\* a child whose exit has been delivered, the 'exit' listener that ends the
\* process (and so runs the exit hook) included.
C20_NoKillAfterExitObserved ==
    [][/\ lastOp' = "exit" => child' = Null
       /\ \A c \in 1..spawned :
             c \notin alive' => kills'[c] = kills[c] /\ msgs'[c] = msgs[c]]_vars

\* C21: the warning 'Restarted <wait> msecs after unexpected exit;
\* attempts = <attempts>' of a restart names the delay that the restart timer
\* which has just fired was scheduled with, and the number of forks the
\* restart timers have made so far, this one included.
C21_RestartedMessage ==
    [][\A i \in 1..Len(timers) :
          RestartTimer(i) =>
              \A e \in Range(logged') :
                  e[2] = "Restarted" =>
                      /\ RatEq(e[3], timers[i].delay)
                      /\ e[4] = restarts']_vars

WindowTimers == {i \in 1..Len(timers) : timers[i].kind = "window"}

\* C22: startTime is non-zero exactly when a window timer is pending; there
\* is never more than one, and it is due MAX seconds and 1 ms after
\* startTime; starts is 0 while no window is open.  A fork made while no
\* window is open sets startTime to the time of the fork, adds the window
\* timer and makes starts 1; a fork made while a window is open leaves
\* startTime and the window timer alone and adds 1 to starts.  The window
\* timer fires at startTime + MAX seconds + 1 ms and clears startTime and
\* starts, child or no child.  No other step changes startTime or starts.
C22_WindowBookkeeping ==
    [][/\ (startTime' # 0) = (WindowTimers' # {})
       /\ Cardinality(WindowTimers') <= 1
       /\ \A i \in WindowTimers' : timers'[i].due = startTime' + WindowMs + 1
       /\ startTime' = 0 => starts' = 0
       /\ IF spawned' = spawned + 1
          THEN IF startTime = 0
               THEN startTime' = now /\ starts' = 1
               ELSE /\ startTime' = startTime /\ starts' = starts + 1
                    /\ Cardinality(WindowTimers') = Cardinality(WindowTimers)
          ELSE IF lastOp' = "window"
               THEN /\ now = startTime + WindowMs + 1
                    /\ startTime' = 0 /\ starts' = 0
                    /\ alive' = alive
               ELSE startTime' = startTime /\ starts' = starts]_vars

\* C22 witness: the window timer has fired while a child is alive that was
\* forked by a restart inside that window, and has cleared startTime and
\* starts.
C22_WindowClosedUnderChild ==
    /\ lastOp = "window"
    /\ startTime = 0 /\ starts = 0
    /\ restarts >= 1
    /\ alive # {}
    /\ WindowTimers = {}

\* C23: start() of an installed service resolves when NET START succeeds
\* or fails with code 2 ('already been started'), and rejects with the error
\* of the command (or of the permission test before it) in every other
\* case; start() and uninstall() of a service that is not installed reject
\* having run no command.
C23_StartReportsOutcome ==
    svcPc = "done" =>
        /\ (svcOp = "start" /\ installed) =>
               IF svcResult \in {"ok", "NET START code 2"}
               THEN svcOutcome = "resolved"
               ELSE svcOutcome = svcResult
        /\ (~installed /\ svcCmds = <<>>) => svcOutcome = "not installed"
        /\ svcOutcome = "not installed" => svcCmds = <<>>

\* C24: for every ServiceConfig, main() run on the arguments that
\* generateServiceWrapperConfig() emits does not exit with code 1 as long as
\* the script file is there: it constructs the container and calls start(),
\* with maxRestarts, maxRetries, restartDelay and restartDelayGrowth equal
\* to the configured values or, for those left out, to the defaults 3, -1,
\* 1 and 0.25.
C24_WrapperArgumentsAccepted ==
    /\ (mainExit = "exit 1") =>
          /\ OptionValue("--event-log", "APPLICATION") \in {"APPLICATION", "SYSTEM"}
          /\ OptionPresent("--log-source")
    /\ (mainExit = "start") =>
          /\ containerOptions.maxRestarts = OrElse(config.maxRestarts, Whole(3))
          /\ containerOptions.maxRetries = OrElse(config.maxRetries, Whole(-1))
          /\ containerOptions.restartDelay = OrElse(config.restartDelay, Whole(1))
          /\ containerOptions.restartDelayGrowth = OrElse(config.restartDelayGrowth, <<1, 4>>)

\* ------------------------------------------------------------ type check
TypeOK ==
    /\ child \in 0..spawned
    /\ alive \subseteq 1..spawned
    /\ killed \subseteq alive
    /\ pc = "running" /\ child # Null => child \in alive
    /\ Len(launchedAt) = spawned /\ Len(kills) = spawned /\ Len(msgs) = spawned
    /\ pc \in {"constructed", "running", "exited"}
    /\ starts >= 0 /\ attempts >= 0
====
